---- MODULE Spec2Model ----
(***************************************************************************)
(* A model of crates/proto/src/quic/quic_client_stream.rs: the DNS-over-   *)
(* QUIC client handle (QuicClientStream), the per-query stream protocol    *)
(* (inner_send) and the datagram socket adapter                            *)
(* (QuinnAsyncUdpSocketAdapter).                                           *)
(*                                                                         *)
(* The QUIC engine (quinn::Connection), the peer and the pluggable         *)
(* datagram socket are the environment: their answers are chosen           *)
(* nondeterministically at each point where the code consults them.        *)
(***************************************************************************)
EXTENDS Integers, Sequences, FiniteSets, TLC

\* ------------------------------------------------------------------ bounds
MaxQueries == 2     \* query futures created on one handle
MaxShutdowns == 2   \* shutdown calls made on one handle

\* Caller-supplied DNS message ids and the answers a peer can give.
Ids == {0, 4660}
Answers == {"192.0.2.10", "192.0.2.20"}
QueryIds == 1..MaxQueries

\* A DnsRequest as the caller hands it to send_message.
Requests == [id : Ids]

VARIABLES
    adapter_call,   \* the most recent poll on the adapter: its input and outcome
    is_shutdown,    \* QuicClientStream.is_shutdown
    conn,           \* the quinn Connection behind QuicClientStream.quic_connection
    streams,        \* the bidirectional streams opened on conn, in opening order
    queries,        \* the futures returned by send_message
    last,           \* the most recent call on the handle and what it returned
    parity,         \* flips at every call on the handle: tells a call from none
    builder,        \* QuicClientStreamBuilder
    attempt         \* the connect future that build / build_with_future returns

handleVars == <<is_shutdown, conn, streams, queries, last, parity>>
adapterVars == <<adapter_call>>
connectVars == <<builder, attempt>>
vars == <<handleVars, adapterVars, connectVars>>

\* What the handle's operations never touch, what the adapter's never do and
\* what the builder and the connect future never do.
notHandle == <<adapterVars, connectVars>>
notAdapter == <<handleVars, connectVars>>
notConnect == <<handleVars, adapterVars>>

\* A stream as open_bi returns it: nothing written, send half open, nothing
\* received.  A query that holds no stream yet has stream number 0.
NewStream == [request |-> <<>>, fin |-> FALSE, response |-> <<>>]
NoResult == [kind |-> "none"]
\* The message slot of a future that holds no message (any more).
NoMessage == [id |-> "none"]
NoQuery == [pc |-> "none", message |-> NoMessage, stream |-> 0, result |-> NoResult]

Ok(v) == [kind |-> "ok", value |-> v]
Err(e) == [kind |-> "err", error |-> e]

\* The state of the handle that connect_inner returns on success.
HandleInit ==
    /\ is_shutdown = FALSE
    /\ conn = [closed |-> FALSE, open_bi_calls |-> 0, close_calls |-> 0,
               close_code |-> "none", close_reason |-> "none"]
    /\ streams = <<>>
    /\ queries = [q \in QueryIds |-> NoQuery]
    /\ last = [op |-> "connect", arg |-> NoMessage, ret |-> "Ok"]
    /\ parity = FALSE

\* ------------------------------------------------- DnsRequestSender calls

Called(op, arg, ret) ==
    /\ last' = [op |-> op, arg |-> arg, ret |-> ret]
    /\ parity' = ~parity

\* The first unused query slot: futures are numbered in creation order.
FreeSlot == CHOOSE q \in QueryIds :
                /\ queries[q].pc = "none"
                /\ \A p \in QueryIds : p < q => queries[p].pc # "none"

\* send_message without the check of the flag.
send_message_unchecked(message) ==
    /\ \E q \in QueryIds : queries[q].pc = "none"
    /\ queries' = [queries EXCEPT ![FreeSlot] =
                      [pc |-> "open", message |-> message,
                       stream |-> 0, result |-> NoResult]]
    /\ Called("send_message", message, "future")
    /\ UNCHANGED <<is_shutdown, conn, streams, notHandle>>

\* send_message: panics when the flag is set; otherwise boxes the inner_send
\* future over a clone of the connection.  The future is lazy: nothing is
\* asked of the connection until it is polled.
send_message(message) ==
    /\ IF is_shutdown
       THEN /\ Called("send_message", message, "panic")
            /\ UNCHANGED <<is_shutdown, conn, streams, queries, notHandle>>
       ELSE /\ \E q \in QueryIds : queries[q].pc = "none"
            /\ queries' = [queries EXCEPT ![FreeSlot] =
                              [pc |-> "open", message |-> message,
                               stream |-> 0, result |-> NoResult]]
            /\ Called("send_message", message, "future")
            /\ UNCHANGED <<is_shutdown, conn, streams, notHandle>>

\* quinn's Connection::close: the connection is closed with the first code
\* and reason it is given; closing a closed connection changes neither.
ConnClose(c, code, reason) ==
    [c EXCEPT !.closed = TRUE,
              !.close_calls = @ + 1,
              !.close_code = IF c.closed THEN @ ELSE code,
              !.close_reason = IF c.closed THEN @ ELSE reason]

\* shutdown that flips the flag instead of setting it.
shutdown_toggle ==
    /\ conn.close_calls < MaxShutdowns
    /\ is_shutdown' = ~is_shutdown
    /\ conn' = ConnClose(conn, "NoError", "Shutdown")
    /\ Called("shutdown", NoMessage, "unit")
    /\ UNCHANGED <<streams, queries, notHandle>>

\* shutdown that closes the connection only when the flag is not yet set.
shutdown_once ==
    /\ conn.close_calls < MaxShutdowns
    /\ is_shutdown' = TRUE
    /\ conn' = IF is_shutdown THEN conn ELSE ConnClose(conn, "NoError", "Shutdown")
    /\ Called("shutdown", NoMessage, "unit")
    /\ UNCHANGED <<streams, queries, notHandle>>

shutdown ==
    /\ conn.close_calls < MaxShutdowns
    /\ is_shutdown' = TRUE
    /\ conn' = ConnClose(conn, "NoError", "Shutdown")
    /\ Called("shutdown", NoMessage, "unit")
    /\ UNCHANGED <<streams, queries, notHandle>>

is_shutdown_call ==
    /\ Called("is_shutdown", NoMessage, IF is_shutdown THEN "true" ELSE "false")
    /\ UNCHANGED <<is_shutdown, conn, streams, queries, notHandle>>

\* A signal that yields ready once and suspends the next poll.
poll_next_once ==
    /\ Called("poll_next", NoMessage,
              IF is_shutdown THEN "Ready(None)"
              ELSE IF last.op = "poll_next" THEN "Pending"
              ELSE "Ready(Some(Ok(())))")
    /\ UNCHANGED <<is_shutdown, conn, streams, queries, notHandle>>

\* A signal that ends only for the first poll after the shutdown.
poll_next_end_once ==
    /\ Called("poll_next", NoMessage,
              IF is_shutdown /\ last.op # "poll_next"
              THEN "Ready(None)" ELSE "Ready(Some(Ok(())))")
    /\ UNCHANGED <<is_shutdown, conn, streams, queries, notHandle>>

poll_next ==
    /\ Called("poll_next", NoMessage,
              IF is_shutdown THEN "Ready(None)" ELSE "Ready(Some(Ok(())))")
    /\ UNCHANGED <<is_shutdown, conn, streams, queries, notHandle>>

\* ------------------------------------------------------------ inner_send
\* One action per await point of inner_send.  The engine's answer at each
\* point is the environment's choice; on a closed connection opening and
\* writing fail.

Finished(q, result) ==
    queries' = [queries EXCEPT ![q].pc = "done", ![q].message = NoMessage,
                               ![q].result = result]

\* inner_send that takes the connection's latest stream when there is one.
inner_send_open_shared(q) ==
    /\ queries[q].pc = "open"
    /\ conn' = [conn EXCEPT !.open_bi_calls = @ + 1]
    /\ \E ok \in BOOLEAN :
          /\ conn.closed => ~ok
          /\ IF ok
             THEN /\ streams' = IF streams = <<>> THEN <<NewStream>> ELSE streams
                  /\ queries' = [queries EXCEPT ![q].pc = "send",
                                                ![q].stream = Len(streams')]
             ELSE /\ Finished(q, Err("open"))
                  /\ UNCHANGED streams
    /\ UNCHANGED <<is_shutdown, last, parity, notHandle>>

\* connection.open_bi().await?
inner_send_open(q) ==
    /\ queries[q].pc = "open"
    /\ conn' = [conn EXCEPT !.open_bi_calls = @ + 1]
    /\ \E ok \in BOOLEAN :
          /\ conn.closed => ~ok
          /\ IF ok
             THEN /\ streams' = Append(streams, NewStream)
                  /\ queries' = [queries EXCEPT ![q].pc = "send",
                                                ![q].stream = Len(streams) + 1]
             ELSE /\ Finished(q, Err("open"))
                  /\ UNCHANGED streams
    /\ UNCHANGED <<is_shutdown, last, parity, notHandle>>

\* A send that writes the message with the id the caller gave it.
QuicStream_send_keep_id(message) == message

\* QuicStream::send: the message id is set to zero and the encoded message
\* is written behind its two-byte length prefix.
QuicStream_send(message) == [message EXCEPT !.id = 0]

\* A send whose error is dropped: the query goes on to finish.
inner_send_send_unchecked(q) ==
    /\ queries[q].pc = "send"
    /\ \E ok \in BOOLEAN :
          /\ conn.closed => ~ok
          /\ streams' = IF ok
                        THEN [streams EXCEPT ![queries[q].stream].request =
                                 Append(@, QuicStream_send(queries[q].message))]
                        ELSE streams
          /\ queries' = [queries EXCEPT ![q].pc = "finish",
                                        ![q].message = NoMessage]
    /\ UNCHANGED <<is_shutdown, conn, last, parity, notHandle>>

\* A send whose error closes the connection.
inner_send_send_close_on_error(q) ==
    /\ queries[q].pc = "send"
    /\ \E ok \in BOOLEAN :
          /\ conn.closed => ~ok
          /\ IF ok
             THEN /\ streams' = [streams EXCEPT ![queries[q].stream].request =
                                     Append(@, QuicStream_send(queries[q].message))]
                  /\ queries' = [queries EXCEPT ![q].pc = "finish",
                                                ![q].message = NoMessage]
                  /\ UNCHANGED conn
             ELSE /\ Finished(q, Err("write"))
                  /\ conn' = [conn EXCEPT !.closed = TRUE]
                  /\ UNCHANGED streams
    /\ UNCHANGED <<is_shutdown, last, parity, notHandle>>

\* stream.send(message.into_parts().0).await?
inner_send_send(q) ==
    /\ queries[q].pc = "send"
    /\ \E ok \in BOOLEAN :
          /\ conn.closed => ~ok
          /\ IF ok
             THEN /\ streams' = [streams EXCEPT ![queries[q].stream].request =
                                     Append(@, QuicStream_send(queries[q].message))]
                  /\ queries' = [queries EXCEPT ![q].pc = "finish",
                                                ![q].message = NoMessage]
             ELSE /\ Finished(q, Err("write"))
                  /\ UNCHANGED streams
    /\ UNCHANGED <<is_shutdown, conn, last, parity, notHandle>>

\* stream.finish().await?  The engine reports a finish that the peer had
\* acknowledged even when the connection has been closed since.
inner_send_finish(q) ==
    /\ queries[q].pc = "finish"
    /\ \E ok \in BOOLEAN :
          /\ IF ok
             THEN /\ streams' = [streams EXCEPT ![queries[q].stream].fin = TRUE]
                  /\ queries' = [queries EXCEPT ![q].pc = "receive"]
             ELSE /\ Finished(q, Err("finish"))
                  /\ UNCHANGED streams
    /\ UNCHANGED <<is_shutdown, conn, last, parity, notHandle>>

\* QuicStream::receive: the response read from the stream's receive half.
QuicStream_receive(stream) == Ok(stream.response[1])

\* A receive that waits for the response on a closed connection too.
inner_send_receive_no_abort(q) ==
    /\ queries[q].pc = "receive"
    /\ \/ /\ streams[queries[q].stream].response # <<>>
          /\ Finished(q, QuicStream_receive(streams[queries[q].stream]))
       \/ /\ ~conn.closed
          /\ Finished(q, Err("read"))
    /\ UNCHANGED <<is_shutdown, conn, streams, last, parity, notHandle>>

\* stream.receive().await
inner_send_receive(q) ==
    /\ queries[q].pc = "receive"
    /\ \/ /\ streams[queries[q].stream].response # <<>>
          /\ Finished(q, QuicStream_receive(streams[queries[q].stream]))
       \/ Finished(q, Err("read"))
    /\ UNCHANGED <<is_shutdown, conn, streams, last, parity, notHandle>>

\* The peer answers on a stream that carries a request and then half-closes
\* its direction of that stream.
peer_respond(s, a) ==
    /\ ~conn.closed
    /\ streams[s].request # <<>>
    /\ streams[s].response = <<>>
    /\ streams' = [streams EXCEPT ![s].response = <<[answer |-> a]>>]
    /\ UNCHANGED <<is_shutdown, conn, queries, last, parity, notHandle>>

\* ------------------------------------------- QuinnAsyncUdpSocketAdapter
MaxBatch == 3       \* datagrams in one poll_send batch
MaxSlots == 2       \* buffer slots handed to one poll_recv
MaxLen == 2         \* length of a received datagram

ErrorKinds == {"WouldBlock", "PermissionDenied", "HostUnreachable"}
Addrs == {"192.0.2.1:853", "198.51.100.7:853"}

Pending == [tag |-> "Pending"]
ReadyOk(v) == [tag |-> "Ok", value |-> v]
ReadyErr(kind) == [tag |-> "Err", kind |-> kind]

\* What io.poll_send_to can answer for one datagram.
SendAnswers == {Pending, ReadyOk("len")} \cup {ReadyErr(k) : k \in ErrorKinds}

\* What io.poll_recv_from can answer.
RecvAnswers == {Pending} \cup {ReadyErr(k) : k \in ErrorKinds}
                 \cup {ReadyOk([len |-> l, addr |-> a]) : l \in 0..MaxLen, a \in Addrs}

\* The arms of the match on io.poll_send_to's answer for one datagram, with
\* `sent` datagrams counted so far: either the loop goes on with a new count
\* or the call returns.
Continue(sent) == [go |-> TRUE, sent |-> sent]
Return(ret) == [go |-> FALSE, ret |-> ret]

\* The match with a blocked socket never suspending the call.
send_arm_never_suspend(answer, sent) ==
    CASE answer.tag = "Ok" -> Continue(sent + 1)
      [] answer.tag = "Err" /\ sent # 0 -> Return(ReadyOk(sent))
      [] answer.tag = "Err" /\ sent = 0 ->
            IF answer.kind = "WouldBlock"
            THEN Return(ReadyErr(answer.kind))
            ELSE Continue(sent + 1)
      [] answer.tag = "Pending" -> Return(ReadyOk(sent))

\* The match with a blocked socket always suspending the call.
send_arm_suspend(answer, sent) ==
    CASE answer.tag = "Ok" -> Continue(sent + 1)
      [] answer.tag = "Err" /\ sent # 0 ->
            IF answer.kind = "WouldBlock" THEN Return(Pending) ELSE Return(ReadyOk(sent))
      [] answer.tag = "Err" /\ sent = 0 ->
            IF answer.kind = "WouldBlock"
            THEN Return(ReadyErr(answer.kind))
            ELSE Continue(sent + 1)
      [] answer.tag = "Pending" -> Return(Pending)

\* The match with a failed send counted once the batch has made progress.
send_arm_count_failed(answer, sent) ==
    CASE answer.tag = "Ok" -> Continue(sent + 1)
      [] answer.tag = "Err" /\ sent # 0 -> Continue(sent + 1)
      [] answer.tag = "Err" /\ sent = 0 ->
            IF answer.kind = "WouldBlock"
            THEN Return(ReadyErr(answer.kind))
            ELSE Continue(sent + 1)
      [] answer.tag = "Pending" ->
            IF sent = 0 THEN Return(Pending) ELSE Return(ReadyOk(sent))

\* The match with every error of a first datagram returned to the caller.
send_arm_first_error_fatal(answer, sent) ==
    CASE answer.tag = "Ok" -> Continue(sent + 1)
      [] answer.tag = "Err" /\ sent # 0 -> Return(ReadyOk(sent))
      [] answer.tag = "Err" /\ sent = 0 -> Return(ReadyErr(answer.kind))
      [] answer.tag = "Pending" ->
            IF sent = 0 THEN Return(Pending) ELSE Return(ReadyOk(sent))

send_arm(answer, sent) ==
    CASE answer.tag = "Ok" -> Continue(sent + 1)
      [] answer.tag = "Err" /\ sent # 0 -> Return(ReadyOk(sent))
      [] answer.tag = "Err" /\ sent = 0 ->
            IF answer.kind = "WouldBlock"
            THEN Return(ReadyErr(answer.kind))
            ELSE Continue(sent + 1)
      [] answer.tag = "Pending" ->
            IF sent = 0 THEN Return(Pending) ELSE Return(ReadyOk(sent))

\* for transmit in transmits { ... }  Poll::Ready(Ok(sent))
\* io[i] is the socket's answer to the send of the i-th datagram, should the
\* call make it; `attempted` lists the datagrams handed to the socket.
RECURSIVE send_loop(_, _, _)
send_loop(io, i, sent) ==
    IF i > Len(io)
    THEN [ret |-> ReadyOk(sent), attempted |-> <<>>]
    ELSE LET arm == send_arm(io[i], sent)
         IN  IF arm.go
             THEN LET rest == send_loop(io, i + 1, arm.sent)
                  IN  [ret |-> rest.ret, attempted |-> <<i>> \o rest.attempted]
             ELSE [ret |-> arm.ret, attempted |-> <<i>>]

poll_send(io) ==
    /\ adapter_call' = [op |-> "poll_send", io |-> io] @@ send_loop(io, 1, 0)
    /\ UNCHANGED notAdapter

\* quinn::udp::RecvMeta; DefaultMeta is what a caller's fresh slot holds and
\* StaleMeta a slot left over from an earlier receive on another socket.
DefaultMeta == [len |-> 0, stride |-> 0, addr |-> "0.0.0.0:0",
                ecn |-> "None", dst_ip |-> "None"]
StaleMeta == [len |-> 1, stride |-> 1, addr |-> "203.0.113.9:53",
              ecn |-> "Some(Ect0)", dst_ip |-> "Some(203.0.113.1)"]

\* poll_recv that fills in the length and the address only.
recv_result_partial_meta(meta, answer) ==
    IF Len(meta) = 0
    THEN [ret |-> ReadyErr("InvalidInput"), meta |-> meta, recvs |-> <<>>]
    ELSE CASE answer.tag = "Ok" ->
                [ret |-> ReadyOk(1),
                 meta |-> [meta EXCEPT ![1].len = answer.value.len,
                                       ![1].addr = answer.value.addr],
                 recvs |-> <<answer>>]
           [] answer.tag = "Err" ->
                [ret |-> ReadyErr(answer.kind), meta |-> meta, recvs |-> <<answer>>]
           [] answer.tag = "Pending" ->
                [ret |-> Pending, meta |-> meta, recvs |-> <<answer>>]

\* poll_recv on `meta`; `answer` is what the socket says if it is asked.
\* The engine hands bufs and meta as arrays of one length, so the slots of
\* meta stand for the buffers as well: no slot is bufs.get_mut(0) == None.
recv_result(meta, answer) ==
    IF Len(meta) = 0
    THEN [ret |-> ReadyErr("InvalidInput"), meta |-> meta, recvs |-> <<>>]
    ELSE CASE answer.tag = "Ok" ->
                [ret |-> ReadyOk(1),
                 meta |-> [meta EXCEPT ![1] =
                              [len |-> answer.value.len,
                               stride |-> answer.value.len,
                               addr |-> answer.value.addr,
                               ecn |-> "None", dst_ip |-> "None"]],
                 recvs |-> <<answer>>]
           [] answer.tag = "Err" ->
                [ret |-> ReadyErr(answer.kind), meta |-> meta, recvs |-> <<answer>>]
           [] answer.tag = "Pending" ->
                [ret |-> Pending, meta |-> meta, recvs |-> <<answer>>]

poll_recv(meta, answer) ==
    /\ adapter_call' = [op |-> "poll_recv", before |-> meta] @@ recv_result(meta, answer)
    /\ UNCHANGED notAdapter

\* No poll has been made on a freshly wrapped socket.
AdapterInit == adapter_call = [op |-> "none"]

\* ------------------------------------------------ QuicClientStreamBuilder
\* An Option is a sequence of at most one element.
None == <<>>
Some(v) == <<v>>

DOQ_ALPN == "doq"
AlpnLists == {<<>>, <<"doq">>, <<"h3">>, <<"h3", "doq">>}
BindAddrs == {"0.0.0.0:5353", "[::1]:5353"}

\* The rustls ClientConfig fields that connect_inner reads.
CryptoConfigs == [alpn_protocols : AlpnLists, enable_early_data : BOOLEAN]

\* impl Default for QuicClientStreamBuilder
BuilderDefault ==
    [crypto_config |-> None,
     transport_config |-> [max_concurrent_bidi_streams |-> 0],
     bind_addr |-> None]

NoAttempt == [pc |-> "builder"]

\* QuicClientStream::builder()
ConnectInit ==
    /\ builder = BuilderDefault
    /\ attempt = NoAttempt

crypto_config(config) ==
    /\ attempt.pc = "builder"
    /\ builder' = [builder EXCEPT !.crypto_config = Some(config)]
    /\ UNCHANGED <<attempt, notConnect>>

bind_addr(addr) ==
    /\ attempt.pc = "builder"
    /\ builder' = [builder EXCEPT !.bind_addr = Some(addr)]
    /\ UNCHANGED <<attempt, notConnect>>

\* The connect future before its first poll: it owns the builder; `events`
\* lists what it has done to the outside so far.
NewAttempt(path) ==
    [pc |-> "socket", path |-> path, events |-> <<>>,
     client_config |-> None, outcome |-> NoResult]

\* build: the future of connect
build ==
    /\ attempt.pc = "builder"
    /\ attempt' = NewAttempt("connect")
    /\ UNCHANGED <<builder, notConnect>>

\* build_with_future: the future of connect_with_future
build_with_future ==
    /\ attempt.pc = "builder"
    /\ attempt' = NewAttempt("connect_with_future")
    /\ UNCHANGED <<builder, notConnect>>

Failed(a, error) == [a EXCEPT !.pc = "done", !.outcome = Err(error)]

\* connect: connect_with_bind / connect, .await?, into_std()?
\* connect_with_future: future.await?
connect_socket ==
    /\ attempt.pc = "socket"
    /\ \E ok \in BOOLEAN :
          attempt' = IF ok
                     THEN [attempt EXCEPT !.pc = "endpoint",
                                          !.events = Append(@, "socket")]
                     ELSE Failed(attempt, "io")
    /\ UNCHANGED <<builder, notConnect>>

\* Endpoint::new(..)? / Endpoint::new_with_abstract_socket(..)?, after
\* which connect_inner is entered.
connect_endpoint ==
    /\ attempt.pc = "endpoint"
    /\ \E ok \in BOOLEAN :
          attempt' = IF ok
                     THEN [attempt EXCEPT !.pc = "connect_inner",
                                          !.events = Append(@, "endpoint")]
                     ELSE Failed(attempt, "io")
    /\ UNCHANGED <<builder, notConnect>>

\* client_config_tls13: TLS 1.3 only, no client certificate, no protocol
\* identifier, no early data; with the native trust store it fails when no
\* certificate could be added.
client_config_tls13(store_ok) ==
    IF store_ok
    THEN Ok([alpn_protocols |-> <<>>, enable_early_data |-> FALSE])
    ELSE Err("NativeCerts")

\* The ALPN check that overwrites the caller's list.
ensure_alpn_overwrite(config) ==
    [config EXCEPT !.alpn_protocols = <<DOQ_ALPN>>]

\* if crypto_config.alpn_protocols.is_empty() { .. = vec![DOQ_ALPN.to_vec()] }
ensure_alpn(config) ==
    IF config.alpn_protocols = <<>>
    THEN [config EXCEPT !.alpn_protocols = <<DOQ_ALPN>>]
    ELSE config

\* ClientConfig::new(crypto_config) without the builder's transport config:
\* the engine's own default allows the peer 100 streams.
client_config_engine_transport(config, transport) ==
    [crypto |-> config, transport |-> [max_concurrent_bidi_streams |-> 100]]

\* ClientConfig::new(crypto_config); client_config.transport_config(..)
client_config(config, transport) ==
    [crypto |-> config, transport |-> transport]

\* A 0-RTT attempt whatever the configuration says.
try_0rtt_always(config) == TRUE

\* if early_data_enabled { connecting.into_0rtt() } else { connecting.await }
try_0rtt(config) == config.enable_early_data

\* The trust store failing once the connection has been initiated.
connect_inner_start_connect_first(store_ok, connect_ok, accepted) ==
    /\ attempt.pc = "connect_inner"
    /\ LET chosen == IF builder.crypto_config # None
                     THEN Ok(builder.crypto_config[1])
                     ELSE client_config_tls13(store_ok)
       IN  IF ~connect_ok
           THEN attempt' = Failed(attempt, "connect")
           ELSE IF chosen.kind = "err"
           THEN attempt' = Failed([attempt EXCEPT !.events = Append(@, "connect")],
                                  chosen.error)
           ELSE attempt' = [attempt EXCEPT
                               !.pc = "handshake",
                               !.client_config =
                                   Some(client_config(ensure_alpn(chosen.value),
                                                      builder.transport_config)),
                               !.events = @ \o <<"connect", "client_config">>]
    /\ UNCHANGED <<builder, notConnect>>

\* connect_inner up to its first await: the crypto configuration is chosen,
\* the client configuration is installed on the endpoint, the connection is
\* initiated and, with early data, 0-RTT is tried.  store_ok, connect_ok and
\* accepted are what the trust store, endpoint.connect and into_0rtt answer
\* if they are asked.
connect_inner_start(store_ok, connect_ok, accepted) ==
    /\ attempt.pc = "connect_inner"
    /\ LET chosen == IF builder.crypto_config # None
                     THEN Ok(builder.crypto_config[1])
                     ELSE client_config_tls13(store_ok)
       IN  IF chosen.kind = "err"
           THEN attempt' = Failed(attempt, chosen.error)
           ELSE
           LET crypto == ensure_alpn(chosen.value)
               installed == [attempt EXCEPT
                                !.client_config =
                                    Some(client_config(crypto, builder.transport_config)),
                                !.events = Append(@, "client_config")]
           IN  IF ~connect_ok
               THEN attempt' = Failed(installed, "connect")
               ELSE IF ~try_0rtt(crypto)
               THEN attempt' = [installed EXCEPT !.pc = "handshake",
                                                 !.events = Append(@, "connect")]
               ELSE IF accepted
               THEN attempt' = [installed EXCEPT
                                   !.pc = "done",
                                   !.events = @ \o <<"connect", "0rtt accepted">>,
                                   !.outcome = Ok([is_shutdown |-> FALSE])]
               ELSE attempt' = [installed EXCEPT
                                   !.pc = "handshake",
                                   !.events = @ \o <<"connect", "0rtt rejected">>]
    /\ UNCHANGED <<builder, notConnect>>

\* connecting.await?, then Ok(QuicClientStream { .., is_shutdown: false })
connect_inner_handshake ==
    /\ attempt.pc = "handshake"
    /\ \E ok \in BOOLEAN :
          attempt' = IF ok
                     THEN [attempt EXCEPT !.pc = "done",
                                          !.events = Append(@, "handshake ok"),
                                          !.outcome = Ok([is_shutdown |-> FALSE])]
                     ELSE [attempt EXCEPT !.pc = "done",
                                          !.events = Append(@, "handshake failed"),
                                          !.outcome = Err("handshake")]
    /\ UNCHANGED <<builder, notConnect>>

\* ------------------------------------------------------- specifications
Init == HandleInit /\ AdapterInit /\ ConnectInit

Scripts(S, n) == UNION {[1..k -> S] : k \in 0..n}

\* The handle, its queries in flight and the peer.
Next ==
    \/ \E m \in Requests : send_message(m)
    \/ shutdown
    \/ is_shutdown_call
    \/ poll_next
    \/ \E q \in QueryIds : inner_send_open(q)
    \/ \E q \in QueryIds : inner_send_send(q)
    \/ \E q \in QueryIds : inner_send_finish(q)
    \/ \E q \in QueryIds : inner_send_receive(q)
    \/ \E s \in DOMAIN streams, a \in Answers : peer_respond(s, a)

Spec == Init /\ [][Next]_vars

\* A step of query q's future.
QueryStep(q) ==
    \/ inner_send_open(q)
    \/ inner_send_send(q)
    \/ inner_send_finish(q)
    \/ inner_send_receive(q)

\* The handle with queries dispatched and run, shut down once, and not
\* polled: the calls that only read the flag are left out.
FairNext ==
    \/ \E m \in Requests : send_message(m)
    \/ ~is_shutdown /\ shutdown
    \/ \E q \in QueryIds : QueryStep(q)
    \/ \E s \in DOMAIN streams, a \in Answers : peer_respond(s, a)

\* Closing the connection wakes every task that waits on it, and a future
\* that its caller still awaits is polled when woken: on a closed
\* connection no query's step is put off for ever.
FairSpec ==
    /\ Init /\ [][FairNext]_vars
    /\ \A q \in QueryIds : WF_vars(conn.closed /\ QueryStep(q))

\* The socket adapter under an arbitrary socket.
AdapterNext ==
    \/ \E io \in Scripts(SendAnswers, MaxBatch) : poll_send(io)
    \/ \E meta \in Scripts({DefaultMeta, StaleMeta}, MaxSlots),
          answer \in RecvAnswers : poll_recv(meta, answer)

AdapterSpec == Init /\ [][AdapterNext]_vars

\* The builder and one connection attempt.
ConnectNext ==
    \/ \E config \in CryptoConfigs : crypto_config(config)
    \/ \E addr \in BindAddrs : bind_addr(addr)
    \/ build
    \/ build_with_future
    \/ connect_socket
    \/ connect_endpoint
    \/ \E store_ok, connect_ok, accepted \in BOOLEAN :
          connect_inner_start(store_ok, connect_ok, accepted)
    \/ connect_inner_handshake

ConnectSpec == Init /\ [][ConnectNext]_vars

\* ----------------------------------------------------------- properties

\* A step that is a call `op` on the handle.
Call(op) == parity' # parity /\ last'.op = op

\* C1: the shutdown flag is false in the handle that connect returns, it
\* never goes from true back to false under any call or query step, and
\* is_shutdown() returns the flag, so that once it has returned true it
\* returns true ever after.
C1_ShutdownFlagOneWay ==
    /\ is_shutdown = FALSE
    /\ [][is_shutdown => is_shutdown']_vars
    /\ [][Call("is_shutdown") =>
             /\ last'.ret = (IF is_shutdown THEN "true" ELSE "false")
             /\ is_shutdown' = is_shutdown]_vars

C1_Witness ==
    /\ is_shutdown
    /\ last.op = "is_shutdown" /\ last.ret = "true"
    /\ conn.close_calls = 2
    /\ \E q \in QueryIds : queries[q].pc = "done"

\* C2: a send_message call made while the flag is set panics and asks
\* nothing of the connection: no open_bi, nothing written on any stream, no
\* future created.
C2_SendAfterShutdownRejected ==
    [][(is_shutdown /\ Call("send_message")) =>
          (last'.ret = "panic" /\ UNCHANGED <<is_shutdown, conn, streams, queries>>)]_vars

C2_Witness ==
    /\ is_shutdown
    /\ last.op = "send_message" /\ last.ret = "panic"
    /\ \E q \in QueryIds : queries[q].pc = "none"

\* C3 as stated: a shutdown() call on a handle that is already shut down
\* changes nothing: not the flag, not the connection's close status, not
\* what the connection has been asked to do.
C3_SecondShutdownNoop ==
    [][(is_shutdown /\ Call("shutdown")) =>
          UNCHANGED <<is_shutdown, conn, streams, queries>>]_vars

\* C3 amended: a shutdown() call on a handle that is already shut down
\* leaves the flag set, the connection closed with the code and reason of
\* the first close, and the streams and queries as they were, but it asks
\* the connection to close once more.
C3_SecondShutdownClosesAgain ==
    [][(is_shutdown /\ Call("shutdown")) =>
          /\ is_shutdown'
          /\ conn.closed /\ conn.close_code = "NoError" /\ conn.close_reason = "Shutdown"
          /\ conn' = [conn EXCEPT !.close_calls = @ + 1]
          /\ UNCHANGED <<streams, queries>>]_vars

C3_Witness ==
    /\ is_shutdown
    /\ last.op = "shutdown"
    /\ conn.closed /\ conn.close_calls = 2

HasStream(q) == queries[q].stream # 0

\* C9: every query that got past open_bi holds a stream of its own, one
\* stream was opened per such query, and a query that completed with a
\* response holds the response the peer delivered on that query's stream.
C9_OwnStreamOwnResponse ==
    /\ \A q \in QueryIds : HasStream(q) => queries[q].stream \in DOMAIN streams
    /\ \A p, q \in QueryIds :
          (p # q /\ HasStream(p) /\ HasStream(q)) => queries[p].stream # queries[q].stream
    /\ Len(streams) = Cardinality({q \in QueryIds : HasStream(q)})
    /\ \A q \in QueryIds :
          queries[q].result.kind = "ok" =>
              /\ HasStream(q)
              /\ streams[queries[q].stream].response = <<queries[q].result.value>>

\* Two queries, streams opened in the order opposite to dispatch, both
\* answered, with different answers.
C9_Witness ==
    /\ queries[1].stream = 2 /\ queries[2].stream = 1
    /\ queries[1].result.kind = "ok" /\ queries[2].result.kind = "ok"
    /\ queries[1].result.value # queries[2].result.value

\* C10: every request written on a stream carries message id zero.
C10_WrittenIdZero ==
    \A s \in DOMAIN streams :
        \A i \in DOMAIN streams[s].request : streams[s].request[i].id = 0

\* The only query dispatched was given a non-zero id and has been written.
C10_Witness ==
    /\ last.op = "send_message" /\ last.ret = "future" /\ last.arg.id # 0
    /\ queries[1].pc = "receive" /\ queries[2].pc = "none"
    /\ streams[queries[1].stream].request # <<>>

\* ---- the adapter's poll_send

IsSend == adapter_call.op = "poll_send"

\* The two ways a socket reports that a send would block.
WouldBlock(answer) ==
    \/ answer.tag = "Pending"
    \/ answer.tag = "Err" /\ answer.kind = "WouldBlock"

OtherError(answer) == answer.tag = "Err" /\ answer.kind # "WouldBlock"

AllOk(io, m) == \A i \in 1..m : io[i].tag = "Ok"

\* The scripts under which m >= 1 datagrams are counted when the (m+1)-th is
\* tried: the first sent or failed with an error that is ignored, the others
\* sent.
Counted(io, m) ==
    /\ m >= 1
    /\ io[1].tag = "Ok" \/ OtherError(io[1])
    /\ \A i \in 2..m : io[i].tag = "Ok"

UpTo(n) == [i \in 1..n |-> i]

\* C4: when the first M datagrams of a batch of N are sent (0 < M < N) and
\* the socket blocks on the (M+1)-th, either way it can say so, the call
\* returns Ready(Ok(M)) and has tried the datagrams 1..M+1 and no other.
C4_PartialThenWouldBlock ==
    IsSend =>
        \A m \in 1..(Len(adapter_call.io) - 1) :
            (AllOk(adapter_call.io, m) /\ WouldBlock(adapter_call.io[m + 1])) =>
                /\ adapter_call.ret = ReadyOk(m)
                /\ adapter_call.attempted = UpTo(m + 1)

C4_Witness ==
    /\ IsSend
    /\ Len(adapter_call.io) = 3
    /\ adapter_call.io[1].tag = "Ok"
    /\ adapter_call.io[2] = ReadyErr("WouldBlock")
    /\ adapter_call.io[3].tag = "Ok"
    /\ adapter_call.ret = ReadyOk(1)

\* C5 as stated: when the socket blocks on the first datagram, either way
\* it can say so, the call returns Pending.
C5_FirstWouldBlockSuspends ==
    (IsSend /\ Len(adapter_call.io) >= 1 /\ WouldBlock(adapter_call.io[1])) =>
        adapter_call.ret = Pending

\* C6 as stated: when a send fails with an error other than would-block
\* after at least one datagram of the call was sent, the failed datagram is
\* in the count returned.
C6_FailedCountedAfterProgress ==
    IsSend =>
        \A m \in 1..(Len(adapter_call.io) - 1) :
            (AllOk(adapter_call.io, m) /\ OtherError(adapter_call.io[m + 1])) =>
                /\ adapter_call.ret.tag = "Ok"
                /\ adapter_call.ret.value >= m + 1

\* C6 amended: when a send fails with any error after M >= 1 datagrams of
\* the call were counted, the call ends there with Ready(Ok(M)): the failed
\* datagram is not counted, no error is returned and no later datagram is
\* tried.
C6_FailedNotCountedAfterProgress ==
    IsSend =>
        \A m \in 1..(Len(adapter_call.io) - 1) :
            (Counted(adapter_call.io, m) /\ adapter_call.io[m + 1].tag = "Err") =>
                /\ adapter_call.ret = ReadyOk(m)
                /\ adapter_call.attempted = UpTo(m + 1)

C6_Witness ==
    /\ IsSend
    /\ Len(adapter_call.io) = 3
    /\ adapter_call.io[1].tag = "Ok"
    /\ adapter_call.io[2] = ReadyErr("PermissionDenied")
    /\ adapter_call.io[3].tag = "Ok"
    /\ adapter_call.ret = ReadyOk(1)

\* C7 as stated: when the first send of a call fails with an error other
\* than would-block, the call returns that error.
C7_FirstErrorPropagated ==
    (IsSend /\ Len(adapter_call.io) >= 1 /\ OtherError(adapter_call.io[1])) =>
        adapter_call.ret = ReadyErr(adapter_call.io[1].kind)

\* C7 amended: when the first send of a call fails with an error other than
\* would-block, the error is ignored: the datagram is counted as sent, the
\* call goes on to the next datagram and returns Ready(Ok(k)) with k >= 1,
\* k being the whole batch when every later send succeeds.
C7_FirstErrorIgnored ==
    (IsSend /\ Len(adapter_call.io) >= 1 /\ OtherError(adapter_call.io[1])) =>
        /\ adapter_call.ret.tag = "Ok"
        /\ adapter_call.ret.value >= 1
        /\ Len(adapter_call.io) >= 2 => Len(adapter_call.attempted) >= 2
        /\ (\A i \in 2..Len(adapter_call.io) : adapter_call.io[i].tag = "Ok") =>
               adapter_call.ret = ReadyOk(Len(adapter_call.io))

C7_Witness ==
    /\ IsSend
    /\ adapter_call.io = <<ReadyErr("HostUnreachable"), ReadyOk("len")>>
    /\ adapter_call.ret = ReadyOk(2)
    /\ adapter_call.attempted = <<1, 2>>

\* ---- the adapter's poll_recv

IsRecv == adapter_call.op = "poll_recv"

\* C8: a poll_recv asks the socket at most once and never reports more than
\* one datagram.  When the receive succeeds the call returns Ready(Ok(1))
\* and the first slot holds the received length as len and as stride, the
\* source address, no ecn and no dst_ip, the other slots being untouched;
\* when the socket has no data the call returns Pending, and when it fails
\* the call returns its error, the slots being untouched in both cases.
C8_RecvAtMostOne ==
    IsRecv =>
        /\ Len(adapter_call.recvs) <= 1
        /\ Len(adapter_call.before) >= 1 => Len(adapter_call.recvs) = 1
        /\ adapter_call.ret.tag = "Ok" => adapter_call.ret.value = 1
        /\ \A i \in DOMAIN adapter_call.recvs :
              LET answer == adapter_call.recvs[i] IN
              /\ answer.tag = "Ok" =>
                    /\ adapter_call.ret = ReadyOk(1)
                    /\ adapter_call.meta =
                          [adapter_call.before EXCEPT ![1] =
                              [len |-> answer.value.len, stride |-> answer.value.len,
                               addr |-> answer.value.addr,
                               ecn |-> "None", dst_ip |-> "None"]]
              /\ answer.tag = "Pending" =>
                    adapter_call.ret = Pending /\ adapter_call.meta = adapter_call.before
              /\ answer.tag = "Err" =>
                    /\ adapter_call.ret = ReadyErr(answer.kind)
                    /\ adapter_call.meta = adapter_call.before

\* A datagram received into a slot that held another receive's metadata.
C8_Witness ==
    /\ IsRecv
    /\ adapter_call.before = <<StaleMeta, StaleMeta>>
    /\ adapter_call.ret = ReadyOk(1)
    /\ adapter_call.meta[1].len = 2 /\ adapter_call.meta[1].stride = 2
    /\ adapter_call.meta[1].ecn = "None"
    /\ adapter_call.meta[2] = StaleMeta

\* C20: a poll_send hands the datagrams to the socket in batch order, each
\* at most once, and stops at the first one that does not let the loop go
\* on.  When it returns Ready(Ok(k)), k is at most the batch length, the k
\* datagrams counted are the first k of the batch and all were tried, and k
\* is 0 only for an empty batch.
C20_PrefixInOrder ==
    IsSend =>
        LET io == adapter_call.io
            tried == Len(adapter_call.attempted)
        IN  /\ tried <= Len(io)
            /\ adapter_call.attempted = UpTo(tried)
            /\ \A i \in 1..(tried - 1) : io[i].tag = "Ok" \/ (i = 1 /\ OtherError(io[i]))
            /\ tried < Len(io) => ~(io[tried].tag = "Ok")
            /\ adapter_call.ret.tag = "Ok" =>
                  /\ adapter_call.ret.value \in 0..Len(io)
                  /\ adapter_call.ret.value \in {tried - 1, tried}
                  /\ (adapter_call.ret.value = 0) <=> (Len(io) = 0)

C20_Witness ==
    /\ IsSend
    /\ adapter_call.io = <<ReadyErr("PermissionDenied"), ReadyOk("len"), Pending>>
    /\ adapter_call.attempted = <<1, 2, 3>>
    /\ adapter_call.ret = ReadyOk(2)

\* ---- the builder and the connect future

Elems(seq) == {seq[i] : i \in DOMAIN seq}

Installed == attempt.pc # "builder" /\ attempt.client_config # None

\* C11: the crypto configuration installed on the endpoint carries the DoQ
\* identifier as its only protocol when the caller supplied no
\* configuration or one with an empty protocol list; a caller's
\* configuration with a non-empty list is installed as it was supplied.
C11_AlpnOnlyWhenEmpty ==
    Installed =>
        LET installed == attempt.client_config[1].crypto
        IN  IF builder.crypto_config # None
               /\ builder.crypto_config[1].alpn_protocols # <<>>
            THEN installed = builder.crypto_config[1]
            ELSE installed.alpn_protocols = <<DOQ_ALPN>>

\* A caller's list without the DoQ identifier, connected.
C11_Witness ==
    /\ Installed
    /\ attempt.pc = "done" /\ attempt.outcome.kind = "ok"
    /\ builder.crypto_config # None
    /\ attempt.client_config[1].crypto.alpn_protocols = <<"h3">>

\* C12: the builder's transport configuration has the peer-initiated
\* bidirectional stream limit at zero from Default on, whatever setters are
\* called, and the client configuration installed on the endpoint carries
\* that limit.
C12_PeerBidiStreamsZero ==
    /\ builder.transport_config.max_concurrent_bidi_streams = 0
    /\ Installed =>
          attempt.client_config[1].transport.max_concurrent_bidi_streams = 0

C12_Witness ==
    /\ builder.crypto_config # None /\ builder.bind_addr # None
    /\ Installed
    /\ attempt.pc = "done" /\ attempt.outcome.kind = "ok"
    /\ attempt.client_config[1].transport.max_concurrent_bidi_streams = 0

\* What the attempt makes of the handshake it awaited.
FollowsHandshake ==
    \/ attempt.pc = "handshake"
    \/ /\ attempt.pc = "done"
       /\ \/ "handshake ok" \in Elems(attempt.events) /\ attempt.outcome.kind = "ok"
          \/ /\ "handshake failed" \in Elems(attempt.events)
             /\ attempt.outcome = Err("handshake")

\* C13: without early data 0-RTT is never tried; with it, an accepted 0-RTT
\* gives the handle without the handshake being awaited, and a rejected one
\* is no error: the handshake is awaited and decides the outcome exactly as
\* it does without early data.
C13_EarlyDataPath ==
    (Installed /\ "connect" \in Elems(attempt.events)) =>
        LET early == attempt.client_config[1].crypto.enable_early_data
            ev == Elems(attempt.events)
        IN  /\ ~early => ("0rtt accepted" \notin ev /\ "0rtt rejected" \notin ev)
            /\ ~early => FollowsHandshake
            /\ early => ("0rtt accepted" \in ev \/ "0rtt rejected" \in ev)
            /\ "0rtt accepted" \in ev =>
                  /\ attempt.pc = "done" /\ attempt.outcome.kind = "ok"
                  /\ "handshake ok" \notin ev /\ "handshake failed" \notin ev
            /\ "0rtt rejected" \in ev => FollowsHandshake

\* Early data rejected, the handshake awaited and the handle returned.
C13_Witness ==
    /\ Installed
    /\ attempt.events = <<"socket", "endpoint", "client_config", "connect",
                          "0rtt rejected", "handshake ok">>
    /\ attempt.outcome.kind = "ok"

ConfigError == attempt.pc = "done" /\ attempt.outcome = Err("NativeCerts")

\* C19 as stated: an attempt that fails with the trust store's error has
\* acquired no socket, created no endpoint and initiated no connection.
C19_ConfigErrorBeforeSocket ==
    ConfigError => attempt.events = <<>>

\* C19 amended: an attempt that fails with the trust store's error has
\* acquired its socket and created its endpoint, in that order, and nothing
\* else: no client configuration was installed and no connection initiated.
C19_ConfigErrorBeforeConnect ==
    ConfigError =>
        /\ attempt.events = <<"socket", "endpoint">>
        /\ attempt.client_config = None

C19_Witness ==
    /\ ConfigError
    /\ attempt.path = "connect_with_future"
    /\ builder.crypto_config = None

\* ---- the liveness signal

Ready == "Ready(Some(Ok(())))"
Ended == "Ready(None)"

\* C14 as stated: while the handle is active the signal yields one ready
\* notification and no more: a poll that follows a poll that yielded ready
\* does not yield ready again.
C14_OneReadyWhileActive ==
    [][(last.op = "poll_next" /\ last.ret = Ready /\ Call("poll_next")) =>
          last'.ret # Ready]_vars

\* C14 amended: while the handle is active every poll of the signal yields
\* a ready notification, one per poll and as many as there are polls.
C14_ReadyAtEveryPollWhileActive ==
    [][(~is_shutdown /\ Call("poll_next")) => last'.ret = Ready]_vars

C14_Witness ==
    /\ ~is_shutdown
    /\ last.op = "poll_next" /\ last.ret = Ready
    /\ \E q \in QueryIds : queries[q].pc = "receive"

\* C15: a poll of the signal on a handle that is shut down returns the end
\* of the stream; a poll never returns Pending nor an error item, and never
\* changes the flag.
C15_EndedAfterShutdown ==
    [][Call("poll_next") =>
          /\ is_shutdown => last'.ret = Ended
          /\ last'.ret \in {Ready, Ended}
          /\ is_shutdown' = is_shutdown]_vars

\* The signal polled twice after the shutdown.
C15_Witness ==
    /\ is_shutdown
    /\ last.op = "poll_next" /\ last.ret = Ended
    /\ parity = TRUE /\ conn.close_calls = 1
    /\ \A q \in QueryIds : queries[q].pc = "none"

\* ---- the steps of a query

StreamOf(q) == streams[queries[q].stream]
Failure(q, step) == queries[q].pc = "done" /\ queries[q].result = Err(step)

\* C16: a query's stream is opened, written, finished and read in that
\* order: the request is written once, on an open stream; the send half is
\* finished only with the request written; the response is read only with
\* the send half finished; and a query that failed at a step has done none
\* of the steps after it.
C16_StepOrder ==
    \A q \in QueryIds :
        /\ queries[q].pc \in {"none", "open"} => ~HasStream(q)
        /\ Failure(q, "open") => ~HasStream(q)
        /\ (queries[q].pc = "send" \/ Failure(q, "write")) =>
              HasStream(q) /\ StreamOf(q).request = <<>> /\ ~StreamOf(q).fin
        /\ (queries[q].pc = "finish" \/ Failure(q, "finish")) =>
              HasStream(q) /\ Len(StreamOf(q).request) = 1 /\ ~StreamOf(q).fin
        /\ (queries[q].pc = "receive" \/ Failure(q, "read")
              \/ queries[q].result.kind = "ok") =>
              HasStream(q) /\ Len(StreamOf(q).request) = 1 /\ StreamOf(q).fin
        /\ HasStream(q) /\ StreamOf(q).request = <<>> => StreamOf(q).response = <<>>

\* One query failed at finish, its request written; another ran through.
C16_Witness ==
    /\ Failure(1, "finish")
    /\ StreamOf(1).request # <<>> /\ ~StreamOf(1).fin
    /\ queries[2].result.kind = "ok"

Fails(q) ==
    /\ queries[q].pc # "done"
    /\ queries'[q].pc = "done" /\ queries'[q].result.kind = "err"

\* C17: the step in which a query fails changes nothing but that query: not
\* the flag, not the connection's close status, no stream, and no other
\* query, whatever state that one is in.
C17_FailureConfined ==
    [][\A q \in QueryIds :
          Fails(q) =>
              /\ is_shutdown' = is_shutdown
              /\ conn'.closed = conn.closed
              /\ conn'.close_calls = conn.close_calls
              /\ streams' = streams
              /\ \A p \in QueryIds \ {q} : queries'[p] = queries[p]]_vars

\* The first query failed at its write on an open connection, and the
\* second, dispatched after it, got its response.
C17_Witness ==
    /\ Failure(1, "write")
    /\ ~is_shutdown /\ ~conn.closed
    /\ queries[2].result.kind = "ok"
    /\ queries[2].stream = 2

\* ---- shutdown with queries in flight

InFlight(q) == queries[q].pc \in {"open", "send", "finish", "receive"}
Completes(q) == InFlight(q) /\ queries'[q].pc = "done"

\* C18 as stated: a query in flight when shutdown closes the connection
\* terminates with an error.
C18_InFlightEndsInError ==
    [][\A q \in QueryIds :
          (conn.closed /\ Completes(q)) => queries'[q].result.kind = "err"]_vars

\* C18 amended: shutdown closes the connection with NoError; from then on no
\* stream is opened and nothing is written or delivered on any stream; and
\* every query in flight terminates: with an error, or, for a query whose
\* response the peer had delivered on its stream before the close, with
\* that response.
C18_InFlightTerminates ==
    /\ [](conn.closed =>
             /\ is_shutdown
             /\ conn.close_code = "NoError" /\ conn.close_reason = "Shutdown")
    /\ [][conn.closed =>
             /\ Len(streams') = Len(streams)
             /\ \A s \in DOMAIN streams :
                   /\ streams'[s].request = streams[s].request
                   /\ streams'[s].response = streams[s].response]_vars
    /\ [][\A q \in QueryIds :
             (conn.closed /\ Completes(q)) =>
                 \/ queries'[q].result.kind = "err"
                 \/ /\ HasStream(q) /\ StreamOf(q).response # <<>>
                    /\ queries'[q].result = Ok(StreamOf(q).response[1])]_vars
    /\ \A q \in QueryIds : (conn.closed /\ InFlight(q)) ~> (queries[q].pc = "done")

\* After the shutdown one query has ended in an error and the other with
\* the response that was waiting on its stream.
C18_Witness ==
    /\ conn.closed /\ last.op = "shutdown"
    /\ queries[1].pc = "done" /\ queries[1].result.kind = "err"
    /\ queries[2].pc = "done" /\ queries[2].result.kind = "ok"

====
